---- MODULE Spec2Model ----
(***************************************************************************)
(* Model of src/app.py: the diff-to-annotation pipeline                    *)
(*   find_ranges_with_indices  (RangeExtractor)                            *)
(*   insert_color_tags         (TagInserter)                               *)
(*   highlight_differences     (Aligner)                                   *)
(* A Python str is modelled as a sequence of one-character strings, so     *)
(* that slicing, concatenation and prefix tests are computed, not assumed. *)
(* Indices kept in the state are Python's 0-based indices.                 *)
(***************************************************************************)
EXTENDS Integers, Sequences, FiniteSets, TLC

VARIABLES
    pc,            \* "loop" | "returned" | "error" (highlight_differences), "call" (pure functions)
    diff_result,   \* highlight_differences: the token stream (list of str)
    text1,         \* highlight_differences: left lines
    text2,         \* highlight_differences: right lines
    result1,       \* highlight_differences: local result1
    result2,       \* highlight_differences: local result2
    i1,            \* highlight_differences: cursor into text1
    i2,            \* highlight_differences: cursor into text2
    idx,           \* highlight_differences: index of the token the for loop is at
    returned,      \* what the caller received: NoValue, or the pair <<result1, result2>>
    diff_string,   \* find_ranges_with_indices: its argument
    ranges,        \* insert_color_tags: its ranges argument; find_ranges_with_indices: its result
    input_string,  \* insert_color_tags: its input_string argument
    highlight_code,\* insert_color_tags: its highlight_code argument
    tagged,        \* insert_color_tags: its result
    calls,         \* highlight_differences: calls completed before the current one
    first,         \* highlight_differences: how the first call ended, once a second one began
    session_state, \* main: st.session_state, a function from the keys that are set
    NUMBER_OF_LOGS \* main: the module global NUMBER_OF_LOGS

vars == <<pc, diff_result, text1, text2, result1, result2, i1, i2, idx, returned,
          diff_string, ranges, input_string, highlight_code, tagged,
          calls, first, session_state, NUMBER_OF_LOGS>>

\* State of main and of the sequence of calls, which the three functions leave alone.
hostVars == <<calls, first, session_state, NUMBER_OF_LOGS>>

alignerVars == <<diff_result, text1, text2, result1, result2, i1, i2, idx, returned>>

NoValue == "NoValue"

(***************************************************************************)
(* Bounds of the model.                                                    *)
(***************************************************************************)
MaxTokens == 4
MaxLines == 2
MaxHintLen == 4
MaxRanges == 2
MaxLogs == 14

(***************************************************************************)
(* Program constants.                                                      *)
(***************************************************************************)
HIGHT_LIGHT_CODE_1 == <<":", "r", "e", "d", "[">>
HIGHT_LIGHT_CODE_2 == <<":", "g", "r", "e", "e", "n", "[">>
RESET_CODE == <<"]">>

(***************************************************************************)
(* Python primitives used by the code.                                     *)
(***************************************************************************)
Min(a, b) == IF a <= b THEN a ELSE b

\* s[a:b] for a, b >= 0: indices clamp to the string, a >= b gives "".
Slice(s, a, b) == SubSeq(s, a + 1, Min(b, Len(s)))

\* s[a:]
SliceFrom(s, a) == SubSeq(s, a + 1, Len(s))

\* s.startswith(p)
StartsWith(s, p) == Len(s) >= Len(p) /\ SubSeq(s, 1, Len(p)) = p

\* All sequences over S of length at most n.
SeqsUpTo(S, n) == UNION {[1..k -> S] : k \in 0..n}

(***************************************************************************)
(* find_ranges_with_indices: re.finditer(r'(\++|-+|\^+)', diff_string).    *)
(***************************************************************************)
\* The end (exclusive, 0-based) of the greedy match c+ that starts at p.
RECURSIVE GreedyEnd(_, _, _)
GreedyEnd(s, q, c) ==
    IF q < Len(s) /\ s[q + 1] = c THEN GreedyEnd(s, q + 1, c) ELSE q

\* The pattern [+\-^]+ in place of the alternation: adjacent runs merge.
RECURSIVE GreedyEndAnyMarker(_, _)
GreedyEndAnyMarker(s, q) ==
    IF q < Len(s) /\ s[q + 1] \in {"+", "-", "^"} THEN GreedyEndAnyMarker(s, q + 1) ELSE q

MatchAtMerging(s, p) ==
    IF s[p + 1] \in {"+", "-", "^"} THEN GreedyEndAnyMarker(s, p) ELSE -1

\* The alternation tried at position p, first alternative first: the match's
\* end, or -1 when no alternative matches at p.
MatchAt(s, p) ==
    IF s[p + 1] = "+" THEN GreedyEnd(s, p, "+")
    ELSE IF s[p + 1] = "-" THEN GreedyEnd(s, p, "-")
    ELSE IF s[p + 1] = "^" THEN GreedyEnd(s, p, "^")
    ELSE -1

\* finditer with end_index = match.end(): the end is exclusive.
RECURSIVE FindIterExclusiveEnd(_, _)
FindIterExclusiveEnd(s, p) ==
    IF p >= Len(s) THEN <<>>
    ELSE LET e == MatchAt(s, p) IN
         IF e = -1 THEN FindIterExclusiveEnd(s, p + 1)
         ELSE <<(<<p, e>>)>> \o FindIterExclusiveEnd(s, e)

\* finditer from position p on: the (start, end - 1) of each match, in order.
RECURSIVE FindIter(_, _)
FindIter(s, p) ==
    IF p >= Len(s) THEN <<>>
    ELSE LET e == MatchAt(s, p) IN
         IF e = -1 THEN FindIter(s, p + 1)
         ELSE <<(<<p, e - 1>>)>> \o FindIter(s, e)

find_ranges_with_indices(s) == FindIter(s, 0)

(***************************************************************************)
(* insert_color_tags: one splice per range, with the running offset.       *)
(***************************************************************************)
Splice(s, start, end, offset, code) ==
    LET modified_start == start + offset
        modified_end == end + offset
    IN  Slice(s, 0, modified_start)
        \o code
        \o Slice(s, modified_start, modified_end + 1)
        \o RESET_CODE
        \o SliceFrom(s, modified_end + 1)

\* The loop with the offset left at 0: later ranges are spliced at the
\* indices of the original string into the already tagged one.
RECURSIVE InsertLoopNoOffset(_, _, _, _, _)
InsertLoopNoOffset(s, rs, k, offset, code) ==
    IF k > Len(rs) THEN s
    ELSE InsertLoopNoOffset(Splice(s, rs[k][1], rs[k][2], offset, code), rs, k + 1,
                            offset, code)

RECURSIVE InsertLoop(_, _, _, _, _)
InsertLoop(s, rs, k, offset, code) ==
    IF k > Len(rs) THEN s
    ELSE InsertLoop(Splice(s, rs[k][1], rs[k][2], offset, code), rs, k + 1,
                    offset + Len(code) + Len(RESET_CODE), code)

insert_color_tags(s, rs, code) == InsertLoop(s, rs, 1, 0, code)

(***************************************************************************)
(* highlight_differences: the inputs the model draws.                      *)
(***************************************************************************)
CatSat == <<"c", "a", "t", " ", "s", "a", "t">>
CatMat == <<"c", "a", "t", " ", "m", "a", "t">>
Gone == <<"g", "o", "n", "e">>
New == <<"n", "e", "w">>

\* The line lists the model draws: at most MaxLines lines that alternate
\* between two lines, starting with either (neighbours differ, so a dropped,
\* repeated or swapped line shows). The code copies lines and never compares
\* them.
Alternating(a, b, n) == [k \in 1..n |-> IF k % 2 = 1 THEN a ELSE b]
LeftTexts == UNION {{Alternating(CatSat, Gone, n), Alternating(Gone, CatSat, n)} : n \in 0..MaxLines}
RightTexts == UNION {{Alternating(CatMat, New, n), Alternating(New, CatMat, n)} : n \in 0..MaxLines}

\* The two-character prefixes difflib.Differ().compare puts before each line.
PrefixCommon == <<" ", " ">>
PrefixRemoved == <<"-", " ">>
PrefixAdded == <<"+", " ">>
PrefixHint == <<"?", " ">>

\* Marker strings of hint lines: three spaces, three '^', two spaces; and two
\* adjacent runs of different markers.
HintCaret == <<" ", " ", " ", "^", "^", "^", " ", " ">>
HintMixed == <<"-", "+">>
Hints == {HintCaret, HintMixed}

\* highlight_differences reads only the prefix of a Common, Removed or Added
\* token (the lines come from text1 and text2), so one payload stands for all.
Payload == <<"l">>
Common == PrefixCommon \o Payload
Removed == PrefixRemoved \o Payload
Added == PrefixAdded \o Payload
Hint(h) == PrefixHint \o h

Tokens == {Common, Removed, Added} \cup {Hint(h) : h \in Hints}

(***************************************************************************)
(* highlight_differences: the loop, one action per branch of an iteration. *)
(***************************************************************************)
InLoop == pc = "loop" /\ idx < Len(diff_result)

\* line of "for idx, line in enumerate(diff_result)"
CurLine == diff_result[idx + 1]

\* idx + 1 < len(diff_result) and diff_result[idx + 1].startswith(p)
NextStartsWith(p) ==
    idx + 1 < Len(diff_result) /\ StartsWith(diff_result[idx + 2], p)

\* diff_result[idx + 1] without the [2:]: the "? " prefix stays in the
\* marker string and every range is two columns to the right.
NextMarkersWithPrefix == diff_result[idx + 2]

\* diff_result[idx + 1][2:]
NextMarkers == SliceFrom(diff_result[idx + 2], 2)

\* An IndexError leaves the function: its locals are gone, nothing is returned.
Raise ==
    /\ pc' = "error"
    /\ UNCHANGED <<diff_result, text1, text2, result1, result2, i1, i2, idx, returned>>

\* The entries the branches append.
ChangedLeftEntry(line, markers) ==
    insert_color_tags(line, find_ranges_with_indices(markers), HIGHT_LIGHT_CODE_1)

ChangedRightEntry(line, markers) ==
    insert_color_tags(line, find_ranges_with_indices(markers), HIGHT_LIGHT_CODE_2)

RemovedEntry(line) == HIGHT_LIGHT_CODE_1 \o line \o RESET_CODE

\* The added line wrapped in the removed tag.
AddedEntryWrongTag(line) == HIGHT_LIGHT_CODE_1 \o line \o RESET_CODE

AddedEntry(line) == HIGHT_LIGHT_CODE_2 \o line \o RESET_CODE

\* The increment applied twice (i += 1 in the branch and again after it).
AdvanceByTwo(i) == i + 2

\* The cursor after a branch that consumed one line.
Advance(i) == i + 1

\* if line.startswith("  "), lines 82-86
StepCommon ==
    /\ InLoop
    /\ StartsWith(CurLine, PrefixCommon)
    /\ IF i1 >= Len(text1) \/ i2 >= Len(text2)
       THEN Raise
       ELSE /\ result1' = Append(result1, text1[i1 + 1])
            /\ result2' = Append(result2, text2[i2 + 1])
            /\ i1' = Advance(i1)
            /\ i2' = Advance(i2)
            /\ idx' = idx + 1
            /\ UNCHANGED <<pc, diff_result, text1, text2, returned>>
    /\ UNCHANGED <<diff_string, ranges, input_string, highlight_code, tagged>>
    /\ UNCHANGED hostVars

\* The else branch of a Removed token, lines 96-104: result1 and result2 after
\* the two ifs. text1[i1] is read only inside them.
RemovedElseReads == NextStartsWith(PrefixRemoved) \/ NextStartsWith(PrefixAdded)

\* The row of line 102 wrapped in the removed tag like that of line 98.
RemovedElseResult1Tagged ==
    LET r == IF NextStartsWith(PrefixRemoved)
             THEN Append(result1, RemovedEntry(text1[i1 + 1]))
             ELSE result1
    IN  IF NextStartsWith(PrefixAdded) THEN Append(r, RemovedEntry(text1[i1 + 1])) ELSE r

RemovedElseResult1 ==
    LET r == IF NextStartsWith(PrefixRemoved)
             THEN Append(result1, RemovedEntry(text1[i1 + 1]))
             ELSE result1
    IN  IF NextStartsWith(PrefixAdded) THEN Append(r, text1[i1 + 1]) ELSE r

\* Line 99 uncommented: a placeholder row on the right for a Removed token
\* followed by another Removed.
RemovedElseResult2WithPlaceholder ==
    LET r == IF NextStartsWith(PrefixRemoved) THEN Append(result2, <<>>) ELSE result2
    IN  IF NextStartsWith(PrefixAdded) THEN Append(r, <<>>) ELSE r

RemovedElseResult2 ==
    IF NextStartsWith(PrefixAdded) THEN Append(result2, <<>>) ELSE result2

\* The i1 += 1 of line 104 moved into the if of line 100: the cursor stays
\* when neither if applies.
RemovedElseCursorInsideIf == IF NextStartsWith(PrefixAdded) THEN Advance(i1) ELSE i1

\* i1 += 1 of line 104, after the two ifs and whatever they did.
RemovedElseCursor == Advance(i1)

\* elif line.startswith("- "), lines 87-104
StepRemoved ==
    /\ InLoop
    /\ ~StartsWith(CurLine, PrefixCommon)
    /\ StartsWith(CurLine, PrefixRemoved)
    /\ IF NextStartsWith(PrefixHint)
       THEN IF i1 >= Len(text1)
            THEN Raise
            ELSE /\ result1' = Append(result1, ChangedLeftEntry(text1[i1 + 1], NextMarkers))
                 /\ i1' = Advance(i1)
                 /\ idx' = idx + 1
                 /\ UNCHANGED <<pc, diff_result, text1, text2, result2, i2, returned>>
       ELSE IF RemovedElseReads /\ i1 >= Len(text1)
            THEN Raise
            ELSE /\ result1' = RemovedElseResult1
                 /\ result2' = RemovedElseResult2
                 /\ i1' = RemovedElseCursor
                 /\ idx' = idx + 1
                 /\ UNCHANGED <<pc, diff_result, text1, text2, i2, returned>>
    /\ UNCHANGED <<diff_string, ranges, input_string, highlight_code, tagged>>
    /\ UNCHANGED hostVars

\* elif line.startswith("+ "), lines 106-118
StepAdded ==
    /\ InLoop
    /\ ~StartsWith(CurLine, PrefixCommon)
    /\ ~StartsWith(CurLine, PrefixRemoved)
    /\ StartsWith(CurLine, PrefixAdded)
    /\ IF i2 >= Len(text2)
       THEN Raise
       ELSE /\ IF NextStartsWith(PrefixHint)
               THEN /\ result2' = Append(result2, ChangedRightEntry(text2[i2 + 1], NextMarkers))
                    /\ UNCHANGED result1
               ELSE /\ result1' = Append(result1, <<>>)
                    /\ result2' = Append(result2, AddedEntry(text2[i2 + 1]))
            /\ i2' = Advance(i2)
            /\ idx' = idx + 1
            /\ UNCHANGED <<pc, diff_result, text1, text2, i1, returned>>
    /\ UNCHANGED <<diff_string, ranges, input_string, highlight_code, tagged>>
    /\ UNCHANGED hostVars

\* A final else branch that gives every other line a placeholder row.
StepHintAppendsRows ==
    /\ InLoop
    /\ ~StartsWith(CurLine, PrefixCommon)
    /\ ~StartsWith(CurLine, PrefixRemoved)
    /\ ~StartsWith(CurLine, PrefixAdded)
    /\ result1' = Append(result1, <<>>)
    /\ result2' = Append(result2, <<>>)
    /\ idx' = idx + 1
    /\ UNCHANGED <<pc, diff_result, text1, text2, i1, i2, returned>>
    /\ UNCHANGED <<diff_string, ranges, input_string, highlight_code, tagged>>
    /\ UNCHANGED hostVars

\* No branch of the if/elif chain matches (a "? " line): the iteration does
\* nothing and the for loop moves on.
StepHint ==
    /\ InLoop
    /\ ~StartsWith(CurLine, PrefixCommon)
    /\ ~StartsWith(CurLine, PrefixRemoved)
    /\ ~StartsWith(CurLine, PrefixAdded)
    /\ idx' = idx + 1
    /\ UNCHANGED <<pc, diff_result, text1, text2, result1, result2, i1, i2, returned>>
    /\ UNCHANGED <<diff_string, ranges, input_string, highlight_code, tagged>>
    /\ UNCHANGED hostVars

\* return result1, result2 (line 120), once the for loop is exhausted
Return ==
    /\ pc = "loop"
    /\ idx = Len(diff_result)
    /\ pc' = "returned"
    /\ returned' = <<result1, result2>>
    /\ UNCHANGED <<diff_result, text1, text2, result1, result2, i1, i2, idx>>
    /\ UNCHANGED <<diff_string, ranges, input_string, highlight_code, tagged>>
    /\ UNCHANGED hostVars

\* The call highlight_differences(diff_result, text1, text2), lines 77-79.
Init ==
    /\ pc = "loop"
    /\ diff_result \in SeqsUpTo(Tokens, MaxTokens)
    /\ text1 \in LeftTexts
    /\ text2 \in RightTexts
    /\ result1 = <<>>
    /\ result2 = <<>>
    /\ i1 = 0
    /\ i2 = 0
    /\ idx = 0
    /\ returned = NoValue
    /\ diff_string = <<>>
    /\ ranges = <<>>
    /\ input_string = <<>>
    /\ highlight_code = <<>>
    /\ tagged = <<>>
    /\ calls = 0
    /\ first = NoValue
    /\ session_state = <<>>
    /\ NUMBER_OF_LOGS = 0

Next == StepCommon \/ StepRemoved \/ StepAdded \/ StepHint \/ Return

Spec == Init /\ [][Next]_vars

(***************************************************************************)
(* highlight_differences called a second time on the same arguments, once  *)
(* the first call has returned or raised.                                  *)
(***************************************************************************)
\* How a call ended: normally or not, and what the caller received.
Outcome == [pc |-> pc, returned |-> returned]

\* The second call with result1 and result2 living on between calls (lists
\* at module level, or mutable default arguments) instead of lines 77-78.
CallAgainKeepingResults ==
    /\ pc \in {"returned", "error"}
    /\ calls = 0
    /\ first' = Outcome
    /\ calls' = 1
    /\ i1' = 0
    /\ i2' = 0
    /\ idx' = 0
    /\ pc' = "loop"
    /\ returned' = NoValue
    /\ UNCHANGED <<result1, result2>>
    /\ UNCHANGED <<diff_result, text1, text2>>
    /\ UNCHANGED <<diff_string, ranges, input_string, highlight_code, tagged>>
    /\ UNCHANGED <<session_state, NUMBER_OF_LOGS>>

\* The second call: lines 77-79 give it new empty lists and cursors at 0; the
\* arguments are the same objects as in the first call.
CallAgain ==
    /\ pc \in {"returned", "error"}
    /\ calls = 0
    /\ first' = Outcome
    /\ calls' = 1
    /\ result1' = <<>>
    /\ result2' = <<>>
    /\ i1' = 0
    /\ i2' = 0
    /\ idx' = 0
    /\ pc' = "loop"
    /\ returned' = NoValue
    /\ UNCHANGED <<diff_result, text1, text2>>
    /\ UNCHANGED <<diff_string, ranges, input_string, highlight_code, tagged>>
    /\ UNCHANGED <<session_state, NUMBER_OF_LOGS>>

NextTwice == Next \/ CallAgain

SpecTwice == Init /\ [][NextTwice]_vars

(***************************************************************************)
(* find_ranges_with_indices as a call of its own: the argument is any      *)
(* string over the marker alphabet, up to MaxHintLen characters.           *)
(***************************************************************************)
MarkerAlphabet == {" ", "+", "-", "^"}

\* main has not run and no call of highlight_differences has completed.
HostIdle ==
    /\ calls = 0
    /\ first = NoValue
    /\ session_state = <<>>
    /\ NUMBER_OF_LOGS = 0

AlignerIdle ==
    /\ diff_result = <<>>
    /\ text1 = <<>>
    /\ text2 = <<>>
    /\ result1 = <<>>
    /\ result2 = <<>>
    /\ i1 = 0
    /\ i2 = 0
    /\ idx = 0
    /\ returned = NoValue

InitRanges ==
    /\ pc = "call"
    /\ diff_string \in SeqsUpTo(MarkerAlphabet, MaxHintLen)
    /\ ranges = <<>>
    /\ input_string = <<>>
    /\ highlight_code = <<>>
    /\ tagged = <<>>
    /\ AlignerIdle
    /\ HostIdle

CallFindRanges ==
    /\ pc = "call"
    /\ ranges' = find_ranges_with_indices(diff_string)
    /\ pc' = "returned"
    /\ UNCHANGED <<diff_string, input_string, highlight_code, tagged>>
    /\ UNCHANGED alignerVars
    /\ UNCHANGED hostVars

SpecRanges == InitRanges /\ [][CallFindRanges]_vars

(***************************************************************************)
(* insert_color_tags as a call of its own: a line, any list of at most     *)
(* MaxRanges index pairs (valid or not), and either highlight code.        *)
(***************************************************************************)
Hello == <<"h", "e", "l", "l", "o">>
TagLines == {Hello, SubSeq(Hello, 1, 3), <<>>}
RangePairs == (0..Len(Hello)) \X (0..Len(Hello))

InitTags ==
    /\ pc = "call"
    /\ input_string \in TagLines
    /\ ranges \in SeqsUpTo(RangePairs, MaxRanges)
    /\ highlight_code \in {HIGHT_LIGHT_CODE_1, HIGHT_LIGHT_CODE_2}
    /\ tagged = <<>>
    /\ diff_string = <<>>
    /\ AlignerIdle
    /\ HostIdle

CallInsertTags ==
    /\ pc = "call"
    /\ tagged' = insert_color_tags(input_string, ranges, highlight_code)
    /\ pc' = "returned"
    /\ UNCHANGED <<diff_string, ranges, input_string, highlight_code>>
    /\ UNCHANGED alignerVars
    /\ UNCHANGED hostVars

SpecTags == InitTags /\ [][CallInsertTags]_vars

(***************************************************************************)
(* main: the navigation state. Streamlit runs the script once per page     *)
(* load and once per interaction; st.session_state lives on between runs.  *)
(* Each action is one whole run of lines 134-171.                          *)
(***************************************************************************)
Max(a, b) == IF a >= b THEN a ELSE b

\* st.session_state with no key set.
EmptySessionState == [k \in {} |-> 0]

\* st.session_state[k] = v
SetKey(ss, k, v) == [x \in DOMAIN ss \cup {k} |-> IF x = k THEN v ELSE ss[x]]

\* update_slider(st.session_state["question_index"]) without the + 1.
SliderForIndex(q) == q

\* The argument of update_slider: st.session_state["question_index"] + 1
SliderFor(q) == q + 1

\* Lines 134-135.
AfterDefault(ss) ==
    IF "question_index" \notin DOMAIN ss THEN SetKey(ss, "question_index", 0) ELSE ss

\* Lines 148-150, when st.button("Previous") is True.
AfterPrevious(ss) ==
    LET moved == SetKey(ss, "question_index", Max(0, ss["question_index"] - 1))
    IN  SetKey(moved, "slider", SliderFor(moved["question_index"]))

\* Lines 152-156, when st.button("Next") is True.
AfterNext(ss) ==
    LET moved == SetKey(ss, "question_index",
                        Min(NUMBER_OF_LOGS - 1, ss["question_index"] + 1))
    IN  SetKey(moved, "slider", SliderFor(moved["question_index"]))

\* Lines 159-165: st.slider with key="slider" returns the value under that
\* key, which is min_value when the key is not yet set, and the index
\* becomes that value minus one.
AfterSlider(ss) ==
    LET shown == IF "slider" \in DOMAIN ss THEN ss ELSE SetKey(ss, "slider", 1)
    IN  SetKey(shown, "question_index", shown["slider"] - 1)

\* Line 171: JSON_LOGS[question_index] raises IndexError outside
\* -NUMBER_OF_LOGS .. NUMBER_OF_LOGS - 1.
AfterLookup(ss) ==
    IF ss["question_index"] >= NUMBER_OF_LOGS \/ ss["question_index"] < -NUMBER_OF_LOGS
    THEN "error" ELSE "main"

NavFrame ==
    /\ UNCHANGED NUMBER_OF_LOGS
    /\ UNCHANGED alignerVars
    /\ UNCHANGED <<diff_string, ranges, input_string, highlight_code, tagged, calls, first>>

\* The widgets exist once a run has drawn them.
Rendered == pc = "main" /\ "slider" \in DOMAIN session_state

\* A run with no widget interaction: the first load of the page, or a rerun.
RunLoad ==
    /\ pc = "main"
    /\ session_state' = AfterSlider(AfterDefault(session_state))
    /\ pc' = AfterLookup(session_state')
    /\ NavFrame

\* The run after a click on "Previous".
RunPrevious ==
    /\ Rendered
    /\ session_state' = AfterSlider(AfterPrevious(AfterDefault(session_state)))
    /\ pc' = AfterLookup(session_state')
    /\ NavFrame

\* The run after a click on "Next".
RunNext ==
    /\ Rendered
    /\ session_state' = AfterSlider(AfterNext(AfterDefault(session_state)))
    /\ pc' = AfterLookup(session_state')
    /\ NavFrame

\* The run after the slider was moved to v: Streamlit stores v under the
\* widget's key before the script runs.
RunSlider ==
    /\ Rendered
    /\ \E v \in 1..NUMBER_OF_LOGS :
          /\ v # session_state["slider"]
          /\ session_state' = AfterSlider(AfterDefault(SetKey(session_state, "slider", v)))
    /\ pc' = AfterLookup(session_state')
    /\ NavFrame

\* A new session: NUMBER_OF_LOGS = len(JSON_LOGS) (line 209), nothing in
\* st.session_state.
InitNav ==
    /\ pc = "main"
    /\ NUMBER_OF_LOGS \in 1..MaxLogs
    /\ session_state = EmptySessionState
    /\ calls = 0
    /\ first = NoValue
    /\ diff_string = <<>>
    /\ ranges = <<>>
    /\ input_string = <<>>
    /\ highlight_code = <<>>
    /\ tagged = <<>>
    /\ AlignerIdle

NextNav == RunLoad \/ RunPrevious \/ RunNext \/ RunSlider

SpecNav == InitNav /\ [][NextNav]_vars

(***************************************************************************)
(* Vocabulary of the properties.                                           *)
(***************************************************************************)
IsMarker(c) == c \in {"+", "-", "^"}

\* The maximal runs of one repeated marker character in s, stated directly:
\* 0-based inclusive <<a, b>> with s[a..b] one marker and no longer such block.
MaximalRuns(s) ==
    {<<a, b>> \in (0..Len(s) - 1) \X (0..Len(s) - 1) :
        /\ a <= b
        /\ IsMarker(s[a + 1])
        /\ \A k \in a..b : s[k + 1] = s[a + 1]
        /\ (a = 0 \/ s[a] # s[a + 1])
        /\ (b = Len(s) - 1 \/ s[b + 2] # s[a + 1])}

RangeSet(rs) == {rs[k] : k \in 1..Len(rs)}

\* The ranges of rs that cover 0-based position q.
Covering(rs, q) == {k \in 1..Len(rs) : rs[k][1] <= q /\ q <= rs[k][2]}

StrictlyAscending(rs) == \A k \in 1..Len(rs) - 1 : rs[k][2] < rs[k + 1][1]

\* C7: find_ranges_with_indices returns exactly one inclusive range (s, e-1)
\* per maximal run [s, e) of one repeated marker character, never merging
\* adjacent runs of different markers, in strictly increasing order and
\* pairwise disjoint; every marker position is covered by exactly one range,
\* no space position by any; a string without markers yields the empty list.
C7_MaximalRuns ==
    (pc = "returned") =>
        /\ RangeSet(ranges) = MaximalRuns(diff_string)
        /\ Len(ranges) = Cardinality(MaximalRuns(diff_string))
        /\ StrictlyAscending(ranges)
        /\ \A q \in 0..Len(diff_string) - 1 :
              Cardinality(Covering(ranges, q)) =
                  IF IsMarker(diff_string[q + 1]) THEN 1 ELSE 0
        /\ ((\A q \in 1..Len(diff_string) : ~IsMarker(diff_string[q])) => ranges = <<>>)

\* Two adjacent runs of different markers, then a space and a third run.
C7_Witness ==
    /\ pc = "returned"
    /\ diff_string = <<"+", "-", " ", "^">>
    /\ ranges = <<(<<0, 0>>), (<<1, 1>>), (<<3, 3>>)>>

\* The precondition of insert_color_tags: every range lies within the line,
\* start <= end, and the ranges are ascending and pairwise non-overlapping.
ValidRanges(line, rs) ==
    /\ \A k \in 1..Len(rs) : 0 <= rs[k][1] /\ rs[k][1] <= rs[k][2] /\ rs[k][2] <= Len(line) - 1
    /\ StrictlyAscending(rs)

\* The tagged line stated position by position on the original line: before
\* the character at a range's start the open tag, after the one at a range's
\* end the close tag.
RECURSIVE TaggedFrom(_, _, _, _, _)
TaggedFrom(line, rs, open, close, q) ==
    IF q >= Len(line) THEN <<>>
    ELSE (IF \E k \in 1..Len(rs) : rs[k][1] = q THEN open ELSE <<>>)
         \o <<line[q + 1]>>
         \o (IF \E k \in 1..Len(rs) : rs[k][2] = q THEN close ELSE <<>>)
         \o TaggedFrom(line, rs, open, close, q + 1)

\* t without the tags: the open tags and the close tag are dropped wherever
\* they occur (the lines of the model use none of the tags' characters
\* except inside tags).
RECURSIVE StripTags(_)
StripTags(t) ==
    IF t = <<>> THEN <<>>
    ELSE IF StartsWith(t, HIGHT_LIGHT_CODE_1) THEN StripTags(SliceFrom(t, Len(HIGHT_LIGHT_CODE_1)))
    ELSE IF StartsWith(t, HIGHT_LIGHT_CODE_2) THEN StripTags(SliceFrom(t, Len(HIGHT_LIGHT_CODE_2)))
    ELSE IF StartsWith(t, RESET_CODE) THEN StripTags(SliceFrom(t, Len(RESET_CODE)))
    ELSE <<t[1]>> \o StripTags(SliceFrom(t, 1))

\* The nesting depth at the end of t when read from depth d, or -1 as soon as
\* a tag opens inside an open tag or closes with none open.
RECURSIVE NestingFrom(_, _)
NestingFrom(t, d) ==
    IF t = <<>> THEN d
    ELSE IF StartsWith(t, HIGHT_LIGHT_CODE_1)
         THEN IF d = 0 THEN NestingFrom(SliceFrom(t, Len(HIGHT_LIGHT_CODE_1)), 1) ELSE -1
    ELSE IF StartsWith(t, HIGHT_LIGHT_CODE_2)
         THEN IF d = 0 THEN NestingFrom(SliceFrom(t, Len(HIGHT_LIGHT_CODE_2)), 1) ELSE -1
    ELSE IF StartsWith(t, RESET_CODE)
         THEN IF d = 1 THEN NestingFrom(SliceFrom(t, Len(RESET_CODE)), 0) ELSE -1
    ELSE NestingFrom(SliceFrom(t, 1), d)

WellNested(t) == NestingFrom(t, 0) = 0

\* C8: for ranges that are ascending, non-overlapping and within the line,
\* insert_color_tags puts the open tag right before the character at each
\* range's start and the close tag right after the one at its end, indices
\* being those of the original line; removing the tags gives the line back,
\* the tags are well-nested, an empty range list changes nothing, and
\* "hello" with [(1,2)] and with [(0,0),(2,2)] gives the two documented rows.
C8_TagsBoundToOriginal ==
    (pc = "returned" /\ ValidRanges(input_string, ranges)) =>
        /\ tagged = TaggedFrom(input_string, ranges, highlight_code, RESET_CODE, 0)
        /\ StripTags(tagged) = input_string
        /\ WellNested(tagged)
        /\ Len(tagged) = Len(input_string)
                         + Len(ranges) * (Len(highlight_code) + Len(RESET_CODE))
        /\ (ranges = <<>> => tagged = input_string)
        /\ (input_string = Hello /\ ranges = <<(<<1, 2>>)>> =>
                tagged = <<"h">> \o highlight_code \o <<"e", "l">> \o RESET_CODE \o <<"l", "o">>)
        /\ (input_string = Hello /\ ranges = <<(<<0, 0>>), (<<2, 2>>)>> =>
                tagged = highlight_code \o <<"h">> \o RESET_CODE \o <<"e">>
                         \o highlight_code \o <<"l">> \o RESET_CODE \o <<"l", "o">>)

\* "hello" tagged at two ranges: the second splice uses the running offset.
C8_Witness ==
    /\ pc = "returned"
    /\ input_string = Hello
    /\ ranges = <<(<<0, 0>>), (<<2, 2>>)>>
    /\ highlight_code = HIGHT_LIGHT_CODE_1
    /\ tagged = <<":", "r", "e", "d", "[", "h", "]", "e", ":", "r", "e", "d", "[", "l", "]", "l", "o">>

(***************************************************************************)
(* Vocabulary of the properties of highlight_differences.                  *)
(***************************************************************************)
IsCommon(t) == StartsWith(t, PrefixCommon)
IsRemoved(t) == StartsWith(t, PrefixRemoved)
IsAdded(t) == StartsWith(t, PrefixAdded)
IsHint(t) == StartsWith(t, PrefixHint)

\* Tokens that consume a left line (Common, Removed), a right line (Common, Added).
NumLeftTokens == Cardinality({k \in 1..Len(diff_result) :
                                 IsCommon(diff_result[k]) \/ IsRemoved(diff_result[k])})
NumRightTokens == Cardinality({k \in 1..Len(diff_result) :
                                  IsCommon(diff_result[k]) \/ IsAdded(diff_result[k])})

CountsMatch == NumLeftTokens = Len(text1) /\ NumRightTokens = Len(text2)

\* Every Hint directly follows a Removed or an Added token.
HintsWellPlaced ==
    \A k \in 1..Len(diff_result) :
        IsHint(diff_result[k]) =>
            k > 1 /\ (IsRemoved(diff_result[k - 1]) \/ IsAdded(diff_result[k - 1]))

\* A Removed token with a Hint opens a changed pair: its Added token follows.
ChangedPairsComplete ==
    \A k \in 1..Len(diff_result) - 1 :
        IsRemoved(diff_result[k]) /\ IsHint(diff_result[k + 1]) =>
            k + 2 <= Len(diff_result) /\ IsAdded(diff_result[k + 2])

\* A stream a line differ can emit for (text1, text2).
DifferStream == HintsWellPlaced /\ ChangedPairsComplete /\ CountsMatch

\* The rows of out with the tags stripped and the empty placeholders left out.
RECURSIVE LinesOf(_)
LinesOf(out) ==
    IF out = <<>> THEN <<>>
    ELSE IF out[1] = <<>> THEN LinesOf(Tail(out))
    ELSE <<StripTags(out[1])>> \o LinesOf(Tail(out))

\* C1: for every stream a differ can emit, when highlight_differences returns,
\* each output has at least as many rows as its input has lines, and the
\* input's lines appear exactly once and in order among the rows (tags
\* stripped, placeholders ignored): no line is dropped or consumed twice.
C1_NoLineDropped ==
    (pc = "returned" /\ DifferStream) =>
        /\ Len(result1) >= Len(text1)
        /\ Len(result2) >= Len(text2)
        /\ LinesOf(result1) = text1
        /\ LinesOf(result2) = text2

\* C2: when the line-consuming tokens match the lines in number, no step
\* raises, a step is possible until the stream is exhausted, and the function
\* returns with every token processed, i1 = len(text1) and i2 = len(text2).
C2_CursorsAtEnd ==
    CountsMatch =>
        /\ pc # "error"
        /\ (pc = "loop" => ENABLED Next)
        /\ (pc = "returned" =>
                idx = Len(diff_result) /\ i1 = Len(text1) /\ i2 = Len(text2))

\* A Removed token whose lookahead is a Common token: the cursors end at the
\* ends of both inputs.
C2_Witness ==
    /\ pc = "returned"
    /\ diff_result = <<Removed, Common>>
    /\ text1 = <<Gone, CatSat>>
    /\ text2 = <<CatMat>>
    /\ idx = 2
    /\ i1 = 2
    /\ i2 = 1

\* C3: after the whole stream has been processed, result1 and result2 have
\* the same number of rows (row k of each being the pair of one diff step).
C3_RowSynchronous ==
    (pc = "returned" /\ DifferStream) => Len(result1) = Len(result2)

\* C4: text1 = ["gone"], text2 = [] and the stream [Removed] give
\* result1 = [":red[gone]"].
C4_PureDeletion ==
    (pc = "returned" /\ diff_result = <<Removed>> /\ text1 = <<Gone>> /\ text2 = <<>>) =>
        result1 = <<HIGHT_LIGHT_CODE_1 \o Gone \o RESET_CODE>>

\* C5 (step): an Added token whose lookahead is not a Hint, at a cursor inside
\* text2, appends one empty placeholder to result1 and one entry
\* ":green[" + text2[i2] + "]" to result2, advances i2 by one and leaves i1.
C5_PureInsertionStep ==
    (InLoop /\ IsAdded(CurLine) /\ ~NextStartsWith(PrefixHint) /\ i2 < Len(text2)) =>
        /\ result1' = Append(result1, <<>>)
        /\ result2' = Append(result2, <<":", "g", "r", "e", "e", "n", "[">>
                                      \o text2[i2 + 1] \o <<"]">>)
        /\ i2' = i2 + 1
        /\ i1' = i1
        /\ pc' = "loop"

\* C5: every step on an Added token without Hint lookahead is a pure
\* insertion, and text1 = [], text2 = ["new"] with the stream [Added] returns
\* ([""], [":green[new]"]).
C5_PureInsertion ==
    /\ [][C5_PureInsertionStep]_vars
    /\ []((pc = "returned" /\ diff_result = <<Added>> /\ text1 = <<>> /\ text2 = <<New>>) =>
            returned = <<(<< <<>> >>),
                         (<< <<":", "g", "r", "e", "e", "n", "[", "n", "e", "w", "]">> >>)>>)

C5_Witness ==
    /\ pc = "returned"
    /\ diff_result = <<Added>>
    /\ text1 = <<>>
    /\ text2 = <<New>>
    /\ result1 = << <<>> >>
    /\ result2 = << <<":", "g", "r", "e", "e", "n", "[", "n", "e", "w", "]">> >>
    /\ i1 = 0
    /\ i2 = 1

\* The input of the end-to-end example: ["cat sat"] against ["cat mat"], each
\* line followed by the hint of three spaces, three '^', two spaces.
CatExample ==
    /\ text1 = <<CatSat>>
    /\ text2 = <<CatMat>>
    /\ diff_result = <<Removed, Hint(HintCaret), Added, Hint(HintCaret)>>

\* C6 as stated: one row each, "cat " followed by the highlight of exactly
\* "sat" on the left and of exactly "mat" on the right.
C6_HighlightsSat ==
    (pc = "returned" /\ CatExample) =>
        /\ result1 = << <<"c", "a", "t", " ">> \o HIGHT_LIGHT_CODE_1
                        \o <<"s", "a", "t">> \o RESET_CODE >>
        /\ result2 = << <<"c", "a", "t", " ">> \o HIGHT_LIGHT_CODE_2
                        \o <<"m", "a", "t">> \o RESET_CODE >>

\* C6 as amended: one row each; the highlighted span is the characters at the
\* positions of the hint's '^' run, indices 3 to 5 of the line: " sa" on the
\* left ("cat" + highlight(" sa") + "t") and " ma" on the right.
C6_HighlightsHintColumns ==
    (pc = "returned" /\ CatExample) =>
        /\ result1 = << <<"c", "a", "t">> \o HIGHT_LIGHT_CODE_1
                        \o <<" ", "s", "a">> \o RESET_CODE \o <<"t">> >>
        /\ result2 = << <<"c", "a", "t">> \o HIGHT_LIGHT_CODE_2
                        \o <<" ", "m", "a">> \o RESET_CODE \o <<"t">> >>

C6_Witness ==
    /\ pc = "returned"
    /\ CatExample
    /\ returned = <<(<< <<"c", "a", "t", ":", "r", "e", "d", "[", " ", "s", "a", "]", "t">> >>),
                    (<< <<"c", "a", "t", ":", "g", "r", "e", "e", "n", "[", " ", "m", "a", "]", "t">> >>)>>

\* C9: a stream with a Hint that does not directly follow a Removed or Added
\* token never makes highlight_differences return outputs.
C9_MisplacedHintFatal ==
    ~HintsWellPlaced => pc # "returned"

\* More line-consuming tokens than lines on one side; fewer on one side.
CursorOverrun == NumLeftTokens > Len(text1) \/ NumRightTokens > Len(text2)
CursorShort == NumLeftTokens < Len(text1) \/ NumRightTokens < Len(text2)

\* C10: a stream that would move a cursor past the end of its lines never
\* returns, an error hands the caller no output pair, and a stream that
\* leaves a cursor short of the end never returns either.
C10_OverrunAndShortFatal ==
    /\ (CursorOverrun => pc # "returned")
    /\ (pc = "error" => returned = NoValue)
    /\ (CursorShort => pc # "returned")

\* Streams of Added tokens only, of Removed tokens only.
OnlyAdded == \A k \in 1..Len(diff_result) : IsAdded(diff_result[k])
OnlyRemoved == \A k \in 1..Len(diff_result) : IsRemoved(diff_result[k])

\* C11: empty inputs are valid. With both texts and the stream empty the
\* function returns ([], []) and never raises; with exactly one text empty and
\* the matching stream of only Added (only Removed) tokens it never raises
\* and runs on until it returns.
C11_EmptyInputsValid ==
    /\ (text1 = <<>> /\ text2 = <<>> /\ diff_result = <<>>) =>
            /\ pc # "error"
            /\ (pc = "loop" => ENABLED Return)
            /\ (pc = "returned" => returned = <<(<<>>), (<<>>)>>)
    /\ (text1 = <<>> /\ text2 # <<>> /\ OnlyAdded /\ Len(diff_result) = Len(text2)) =>
            /\ pc # "error"
            /\ (pc = "loop" => ENABLED Next)
            /\ (pc = "returned" => idx = Len(diff_result))
    /\ (text2 = <<>> /\ text1 # <<>> /\ OnlyRemoved /\ Len(diff_result) = Len(text1)) =>
            /\ pc # "error"
            /\ (pc = "loop" => ENABLED Next)
            /\ (pc = "returned" => idx = Len(diff_result))

\* The right text empty and two Removed tokens for the two left lines.
C11_Witness ==
    /\ pc = "returned"
    /\ text1 = <<Gone, CatSat>>
    /\ text2 = <<>>
    /\ diff_result = <<Removed, Removed>>
    /\ returned # NoValue

\* Both texts and the stream empty.
C11_WitnessEmpty ==
    /\ pc = "returned"
    /\ text1 = <<>>
    /\ text2 = <<>>
    /\ diff_result = <<>>
    /\ returned = <<(<<>>), (<<>>)>>

\* C12: highlight_differences is a pure function of its arguments. A second
\* call on the same arguments starts with empty outputs and cursors at 0
\* whatever the first call left, ends as the first call ended (the same
\* (result1, result2), or the same error), and no step of either call
\* changes diff_result, text1 or text2.
C12_PureFunction ==
    /\ []((calls = 1 /\ pc \in {"returned", "error"}) => Outcome = first)
    /\ []((pc = "loop" /\ idx = 0) =>
            result1 = <<>> /\ result2 = <<>> /\ i1 = 0 /\ i2 = 0)
    /\ [][diff_result' = diff_result /\ text1' = text1 /\ text2' = text2]_vars

\* The second call of a run that produced rows has returned the same pair.
C12_Witness ==
    /\ calls = 1
    /\ pc = "returned"
    /\ diff_result = <<Removed, Hint(HintMixed), Added>>
    /\ text1 = <<CatSat>>
    /\ text2 = <<CatMat>>
    /\ first = [pc |-> "returned", returned |-> <<result1, result2>>]
    /\ Len(result1) = 2

\* The current token is of kind p and the one after it of kind q.
TokenPair(p, q) ==
    /\ InLoop
    /\ StartsWith(CurLine, p)
    /\ idx + 1 < Len(diff_result)
    /\ StartsWith(diff_result[idx + 2], q)

CatSatTaggedMixed ==
    <<":", "r", "e", "d", "[", "c", "]", ":", "r", "e", "d", "[", "a", "]", "t", " ", "s", "a", "t">>

\* C13 (step): the current token is Removed, the next one Removed, and the
\* cursor is inside text1.
C13_Rule3Step ==
    (TokenPair(PrefixRemoved, PrefixRemoved) /\ i1 < Len(text1)) =>
        /\ result1' = Append(result1, <<":", "r", "e", "d", "[">> \o text1[i1 + 1] \o <<"]">>)
        /\ i1' = i1 + 1
        /\ result2' = result2
        /\ i2' = i2

\* C13: a step on a Removed token followed by another Removed appends exactly
\* one entry to result1, the whole line text1[i1] wrapped in the removed tag,
\* advances i1 by one and leaves result2 and i2 unchanged.
C13_Rule3 == [][C13_Rule3Step]_vars

C13_Witness ==
    /\ pc = "loop"
    /\ diff_result = <<Removed, Removed>>
    /\ text1 = <<Gone, CatSat>>
    /\ idx = 1
    /\ i1 = 1
    /\ i2 = 0
    /\ result1 = << <<":", "r", "e", "d", "[", "g", "o", "n", "e", "]">> >>
    /\ result2 = <<>>

\* C14 (step): the current token is Removed, the next one Added, and the
\* cursor is inside text1.
C14_Rule4Step ==
    (TokenPair(PrefixRemoved, PrefixAdded) /\ i1 < Len(text1)) =>
        /\ result1' = Append(result1, text1[i1 + 1])
        /\ result2' = Append(result2, <<>>)
        /\ i1' = i1 + 1
        /\ i2' = i2

\* C14: a step on a Removed token followed by an Added token appends text1[i1]
\* without tags to result1 and one empty placeholder to result2, advances i1
\* by one and leaves i2 unchanged.
C14_Rule4 == [][C14_Rule4Step]_vars

C14_Witness ==
    /\ pc = "loop"
    /\ diff_result = <<Removed, Added>>
    /\ text1 = <<Gone>>
    /\ text2 = <<New>>
    /\ idx = 1
    /\ i1 = 1
    /\ i2 = 0
    /\ result1 = <<Gone>>
    /\ result2 = << <<>> >>

\* C15 (step): a Removed token, then an Added token, with a Hint as lookahead.
C15_ChangedStep ==
    /\ (TokenPair(PrefixRemoved, PrefixHint) /\ i1 < Len(text1)) =>
            /\ result1' = Append(result1,
                    insert_color_tags(text1[i1 + 1],
                        find_ranges_with_indices(SliceFrom(diff_result[idx + 2], 2)),
                        HIGHT_LIGHT_CODE_1))
            /\ (text1[i1 + 1] = CatSat /\ diff_result[idx + 2] = Hint(HintMixed) =>
                    result1'[Len(result1')] = CatSatTaggedMixed)
            /\ i1' = i1 + 1
            /\ result2' = result2
            /\ i2' = i2
    /\ (TokenPair(PrefixAdded, PrefixHint) /\ i2 < Len(text2)) =>
            /\ result2' = Append(result2,
                    insert_color_tags(text2[i2 + 1],
                        find_ranges_with_indices(SliceFrom(diff_result[idx + 2], 2)),
                        HIGHT_LIGHT_CODE_2))
            /\ i2' = i2 + 1
            /\ result1' = result1
            /\ i1' = i1

\* C15: a step on a Removed token whose lookahead is a Hint appends to result1
\* exactly text1[i1] tagged with the removed tag at the ranges of that Hint's
\* marker string (the Hint line without its two-character prefix), advances
\* i1 by one and leaves result2 and i2; an Added token with a Hint lookahead
\* does the same on the right with the added tag and leaves result1 and i1.
C15_Rules2And5 == [][C15_ChangedStep]_vars

C15_Witness ==
    /\ pc = "loop"
    /\ diff_result = <<Removed, Hint(HintMixed), Added, Hint(HintMixed)>>
    /\ text1 = <<CatSat>>
    /\ text2 = <<CatMat>>
    /\ idx = 3
    /\ i1 = 1
    /\ i2 = 1
    /\ result1 = <<CatSatTaggedMixed>>
    /\ result2 = << <<":", "g", "r", "e", "e", "n", "[", "c", "]",
                      ":", "g", "r", "e", "e", "n", "[", "a", "]", "t", " ", "m", "a", "t">> >>

\* The rows a step can append that depend on the line alone.
PlainRows(line) ==
    {<<>>, line, HIGHT_LIGHT_CODE_1 \o line \o RESET_CODE, HIGHT_LIGHT_CODE_2 \o line \o RESET_CODE}

NewRows(before, after) == {after[k] : k \in (Len(before) + 1)..Len(after)}

\* C16 (step): the iteration on a Hint token, and the iterations whose
\* lookahead is not a Hint.
C16_HintStep ==
    /\ (InLoop /\ IsHint(CurLine)) =>
            /\ i1' = i1
            /\ i2' = i2
            /\ result1' = result1
            /\ result2' = result2
            /\ idx' = idx + 1
            /\ pc' = "loop"
    /\ (InLoop /\ ~NextStartsWith(PrefixHint)) =>
            /\ \A row \in NewRows(result1, result1') :
                    row = <<>> \/ (i1 < Len(text1) /\ row \in PlainRows(text1[i1 + 1]))
            /\ \A row \in NewRows(result2, result2') :
                    row = <<>> \/ (i2 < Len(text2) /\ row \in PlainRows(text2[i2 + 1]))

\* C16: the iteration whose current token is a Hint leaves i1, i2, result1 and
\* result2 unchanged and only moves on to the next token; a step whose
\* lookahead is not a Hint appends only rows fixed by the line itself.
C16_HintNeverPrimary == [][C16_HintStep]_vars

\* A Hint that follows a Common token has been stepped over.
C16_Witness ==
    /\ pc = "loop"
    /\ diff_result = <<Common, Hint(HintCaret)>>
    /\ text1 = <<CatSat>>
    /\ text2 = <<CatMat>>
    /\ idx = 2
    /\ i1 = 1
    /\ i2 = 1
    /\ result1 = <<CatSat>>
    /\ result2 = <<CatMat>>

IsPrefixOf(a, b) == Len(a) <= Len(b) /\ SubSeq(b, 1, Len(a)) = a

\* Line-consuming tokens among the first n tokens of the stream.
LeftSeen(n) == Cardinality({k \in 1..n : IsCommon(diff_result[k]) \/ IsRemoved(diff_result[k])})
RightSeen(n) == Cardinality({k \in 1..n : IsCommon(diff_result[k]) \/ IsAdded(diff_result[k])})

\* C17 (step): any step of the call.
C17_MonotoneStep ==
    /\ i1' \in {i1, i1 + 1}
    /\ i2' \in {i2, i2 + 1}
    /\ IsPrefixOf(result1, result1')
    /\ IsPrefixOf(result2, result2')
    /\ (InLoop /\ pc' = "loop") =>
            /\ idx' = idx + 1
            /\ (IsCommon(CurLine) => i1' = i1 + 1 /\ i2' = i2 + 1)
            /\ (IsRemoved(CurLine) => i1' = i1 + 1 /\ i2' = i2)
            /\ (IsAdded(CurLine) => i1' = i1 /\ i2' = i2 + 1)
            /\ (IsHint(CurLine) => i1' = i1 /\ i2' = i2)

\* C17: in every step the cursors stay or advance by one (Common advances
\* both, Removed only i1, Added only i2, Hint neither) and result1 and result2
\* before the step are prefixes of what they are after it; so in every state
\* 0 <= i1 <= the Common and Removed tokens seen, 0 <= i2 <= the Common and
\* Added tokens seen.
C17_MonotoneAppendOnly ==
    /\ [][C17_MonotoneStep]_vars
    /\ [](/\ 0 <= i1 /\ i1 <= LeftSeen(idx)
          /\ 0 <= i2 /\ i2 <= RightSeen(idx))

C17_Witness ==
    /\ pc = "returned"
    /\ diff_result = <<Common, Removed, Added, Hint(HintCaret)>>
    /\ i1 = 2
    /\ i2 = 2
    /\ Len(result1) = 2
    /\ Len(result2) = 3

\* A range whose end lies beyond the last index of the line; two ranges that
\* share a position.
RangeBeyondEnd(line, rs) == \E k \in 1..Len(rs) : rs[k][2] > Len(line) - 1

RangesOverlap(rs) ==
    \E j, k \in 1..Len(rs) :
        /\ j < k
        /\ \E q \in 0..Len(Hello) : q \in rs[j][1]..rs[j][2] /\ q \in rs[k][1]..rs[k][2]

\* C18: ranges that end beyond the line or overlap are a contract violation
\* that ends in a fatal error: insert_color_tags never returns a string for
\* them.
C18_InvalidRangesFatal ==
    (RangeBeyondEnd(input_string, ranges) \/ RangesOverlap(ranges)) => pc # "returned"

\* C19 (step): what a click run does to the index.
C19_ButtonStep ==
    /\ RunPrevious =>
          session_state'["question_index"] =
              IF session_state["question_index"] = 0 THEN 0
              ELSE session_state["question_index"] - 1
    /\ RunNext =>
          session_state'["question_index"] =
              IF session_state["question_index"] = NUMBER_OF_LOGS - 1
              THEN session_state["question_index"]
              ELSE session_state["question_index"] + 1

\* C19: after every script run, whatever clicks and slider moves came
\* before, question_index lies in 0..NUMBER_OF_LOGS-1 and equals slider - 1,
\* so JSON_LOGS[question_index] is in bounds; Previous at index 0 and Next at
\* the last index leave the index, otherwise they move it by exactly one.
C19_NavigationInBounds ==
    /\ [](pc # "error")
    /\ []("slider" \in DOMAIN session_state =>
            /\ "question_index" \in DOMAIN session_state
            /\ session_state["question_index"] \in 0..NUMBER_OF_LOGS - 1
            /\ session_state["question_index"] = session_state["slider"] - 1)
    /\ [](session_state # EmptySessionState => "slider" \in DOMAIN session_state)
    /\ [][C19_ButtonStep]_vars

\* The last of three records is shown.
C19_Witness ==
    /\ pc = "main"
    /\ NUMBER_OF_LOGS = 3
    /\ "slider" \in DOMAIN session_state
    /\ session_state["question_index"] = 2
    /\ session_state["slider"] = 3

====
